---- MODULE Spec2Model ----
(***************************************************************************)
(* Model of the container pool orchestrator (ContainerOrchestrator, a      *)
(* Durable Object) of backend/src/index.ts, with deallocateContainer of    *)
(* backend/src/index-with-ws.ts.                                           *)
(*                                                                         *)
(* Granularity.  Every ctx.storage.sql.exec call is synchronous, so the    *)
(* code between two awaited backend calls (stub.fetch) runs without any    *)
(* other request being delivered: one action of the model is one such      *)
(* block.  An operation that is waiting for a backend call is a record of  *)
(* procs; while it waits, other requests are delivered and other waiting   *)
(* operations resume.                                                      *)
(***************************************************************************)
EXTENDS Integers, Sequences, FiniteSets, TLC

VARIABLES
    containers,   \* table containers: id -> [projectId, createdAt, lastActivity]
    poolConfig,   \* table pool_config: key -> value
    events,       \* table events, in append (autoincrement) order
    clock,        \* Date.now()
    nextId,       \* the next id LOVING_CONTAINER.newUniqueId() hands out
    procs,        \* operations waiting for a backend call, by call number
    calls,        \* number of requests delivered so far
    grants,       \* history: <<projectId, id>> returned by allocate, not yet released
    last,         \* what the last step returned to its caller
    reply,        \* the backend call that resolved or rejected in the last step
    sockets,      \* ctx.getWebSockets(): the state of each observer's socket
    pushed,       \* the messages the last step sent to each observer
    budget        \* number of requests the run delivers at most

vars == <<containers, poolConfig, events, clock, nextId, procs, calls, grants, last, reply,
          sockets, pushed, budget>>

-----------------------------------------------------------------------------
(* Bounds of the model *)

MaxCalls == 2

\* the requests of the scenario of three calls
ScenarioCalls == 3

ProjectIds == {"p1", "p2"}
Null == "null"
SystemId == 0
NoId == 0

\* request bodies of PUT /config
ConfigBodies ==
    { [bufferSize |-> 0], [maxSize |-> 1], [maxSize |-> 3, bufferSize |-> 1],
      [minSize |-> 1] }

\* how the awaited start call ends: a response, a response although the
\* container did not start (an error status, or a start that fails behind the
\* 200 LovContainer.fetch answers without awaiting it), or a rejection
StartOutcomes == {"ok", "failed", "rejected"}

\* how an awaited kill call ends: a response or a rejection
KillOutcomes == {"ok", "rejected"}

ProcIds == 1..(ScenarioCalls + 1)

\* the observers that may connect to /ws, in the order of getWebSockets()
Observers == {1, 2}

-----------------------------------------------------------------------------
(* The tables as one value, so that the code of one block composes *)

EmptyTable == [id \in {} |-> NoId]

NoMessages == [o \in Observers |-> <<>>]

\* c, p, e: the three tables; n: the next unique id; w: the sockets;
\* m: the messages the block has sent to each observer so far
Tables == [c |-> containers, p |-> poolConfig, e |-> events, n |-> nextId,
           w |-> sockets, m |-> NoMessages]

\* mutant of IdleIds: the WHERE project_id IS NULL is missing
IdleIdsAnyRow(S) == DOMAIN S.c

IdleIds(S) == {id \in DOMAIN S.c : S.c[id].projectId = Null}

\* mutant of OwnedBy: the SELECT finds no row
OwnedByNobody(S, projectId) == {}

\* the rows SELECT ... WHERE project_id = ? gives
OwnedBy(S, projectId) == {id \in DOMAIN S.c : S.c[id].projectId = projectId}

\* getStatus: the rows of containers and the four keys of pool_config, read
\* in one block
getStatus(S) ==
    [containers |-> S.c,
     poolConfig |-> [minSize |-> S.p.min_size, maxSize |-> S.p.max_size,
                     currentSize |-> S.p.current_size, bufferSize |-> S.p.buffer_size]]

\* mutant of broadcastEvent: the send is not in a try block, so the first
\* send that throws ends the loop
broadcastEventUnguarded(S, event) ==
    LET message == [type |-> event.type, event |-> event, status |-> getStatus(S)]
    IN  [S EXCEPT !.m = [o \in Observers |->
            IF S.w[o] = "open" /\ \A b \in Observers : b < o => S.w[b] # "broken"
            THEN Append(@[o], message) ELSE @[o]]]

\* broadcastEvent: the event with a fresh status snapshot goes to every
\* socket; a send that throws is caught and the loop goes on
broadcastEvent(S, event) ==
    LET message == [type |-> event.type, event |-> event, status |-> getStatus(S)]
    IN  [S EXCEPT !.m = [o \in Observers |->
            IF S.w[o] = "open" THEN Append(@[o], message) ELSE @[o]]]

\* mutant of logEvent: the INSERT replaces the newest row of events
logEventReplacing(S, type, containerId, timestamp, details) ==
    LET event == [type |-> type, containerId |-> containerId,
                  timestamp |-> timestamp, details |-> details]
    IN  broadcastEvent([S EXCEPT !.e = IF @ = <<>> THEN <<event>>
                                       ELSE [@ EXCEPT ![Len(@)] = event]], event)

\* logEvent: the INSERT INTO events, then the broadcast
logEvent(S, type, containerId, timestamp, details) ==
    LET event == [type |-> type, containerId |-> containerId,
                  timestamp |-> timestamp, details |-> details]
    IN  broadcastEvent([S EXCEPT !.e = Append(@, event)], event)

-----------------------------------------------------------------------------
(* Waiting operations *)

NoProc == [op |-> "none", pc |-> "done", key |-> Null, newId |-> NoId,
           i |-> 0, toCreate |-> 0, list |-> <<>>, idx |-> 0, excess |-> 0]

Done == [NoProc EXCEPT !.pc = "done"]

AwaitStart(newId, i, toCreate) ==
    [NoProc EXCEPT !.pc = "start", !.newId = newId, !.i = i, !.toCreate = toCreate]

AwaitKill(pc, list, idx, excess) ==
    [NoProc EXCEPT !.pc = pc, !.list = list, !.idx = idx, !.excess = excess]

NoReturn == [op |-> "none", key |-> Null, id |-> NoId, status |-> "none", err |-> "none"]

\* status: what the caller gets; err: the Error thrown on the way, if any
Return(op, key, id, status, err) ==
    [op |-> op, key |-> key, id |-> id, status |-> status, err |-> err]

NoReply == [call |-> "none", id |-> NoId, outcome |-> "none"]

\* LOVING_CONTAINER.newUniqueId(): the instance createContainer starts; the
\* row id is its toString()
newUniqueId(id) == [kind |-> "unique", of |-> id]

\* LOVING_CONTAINER.idFromName(name): the instance the name hashes to, which
\* is no instance newUniqueId gave (idFromString would give that one back)
idFromName(name) == [kind |-> "name", of |-> name]

\* the backend call that returned and the instance its stub addressed: the
\* start call goes to newUniqueId(), the kill calls to idFromName(row id)
Reply(call, id, outcome) ==
    [call |-> call, id |-> id, outcome |-> outcome,
     instance |-> IF call = "start" THEN newUniqueId(id) ELSE idFromName(id)]

-----------------------------------------------------------------------------
(* createContainer *)

\* mutant of poolLimitReached: > for >=
poolLimitReachedStrict(S) == S.p.current_size > S.p.max_size

\* the check of createContainer: it throws when the pool is at its limit
poolLimitReached(S) == S.p.current_size >= S.p.max_size

\* mutant of createContainerInsert: the event carries a Date.now() that was
\* read before the start call was awaited
createContainerInsertStale(S, id, now) ==
    LET S1 == [S EXCEPT !.c = (id :> [projectId |-> Null, createdAt |-> now,
                                      lastActivity |-> now]) @@ @]
        S2 == [S1 EXCEPT !.p.current_size = @ + 1]
    IN  logEvent(S2, "container_created", id, now - 2, "{}")

\* createContainer after the awaited start call resolved: the row, the
\* counter and the container_created event
createContainerInsert(S, id, now) ==
    LET S1 == [S EXCEPT !.c = (id :> [projectId |-> Null, createdAt |-> now,
                                      lastActivity |-> now]) @@ @]
        S2 == [S1 EXCEPT !.p.current_size = @ + 1]
    IN  logEvent(S2, "container_created", id, now, "{}")

\* the loop "for (i < toCreate) try { await createContainer() } catch {}" of
\* initializePool and maintainPool from iteration i on, up to its first
\* awaited start call: a createContainer that throws is caught and the loop
\* goes on with i + 1
RECURSIVE createLoop(_, _, _)
createLoop(S, i, toCreate) ==
    IF i >= toCreate THEN [S |-> S, k |-> Done]
    ELSE IF poolLimitReached(S) THEN createLoop(S, i + 1, toCreate)
    ELSE [S |-> [S EXCEPT !.n = @ + 1], k |-> AwaitStart(S.n, i, toCreate)]

initializePool(S) ==
    LET bufferSize == S.p.buffer_size
        idleCount == Cardinality(IdleIds(S))
    IN  IF idleCount < bufferSize
        THEN createLoop(S, 0, bufferSize - idleCount)
        ELSE [S |-> S, k |-> Done]

-----------------------------------------------------------------------------
(* shutdownExcessContainers and maintainPool *)

Min(a, b) == IF a < b THEN a ELSE b

\* the results SELECT id ... WHERE project_id IS NULL ORDER BY created_at ASC
\* can give: rows with equal created_at come in any order
RECURSIVE byCreatedAt(_, _)
byCreatedAt(S, ids) ==
    IF ids = {} THEN {<<>>}
    ELSE UNION { { <<id>> \o s : s \in byCreatedAt(S, ids \ {id}) } :
                 id \in { x \in ids : \A y \in ids : S.c[x].createdAt <= S.c[y].createdAt } }

idleByCreatedAt(S) == byCreatedAt(S, IdleIds(S))

\* the last statement of shutdownExcessContainers
decrementCurrentSize(S, excessCount) ==
    [S EXCEPT !.p.current_size = @ - excessCount]

\* shutdownExcessContainers up to its first awaited kill call
shutdownExcessContainers(S) ==
    LET bufferSize == S.p.buffer_size IN
    { IF Len(idleContainers) > bufferSize
      THEN LET excessCount == Len(idleContainers) - bufferSize
               containersToShutdown ==
                   SubSeq(idleContainers, 1, Min(excessCount, Len(idleContainers)))
           IN  IF containersToShutdown = <<>>
               THEN [S |-> decrementCurrentSize(S, excessCount), k |-> Done]
               ELSE [S |-> S, k |-> AwaitKill("kill", containersToShutdown, 1, excessCount)]
      ELSE [S |-> S, k |-> Done]
      : idleContainers \in idleByCreatedAt(S) }

\* mutant of maintainPool: the creation loop runs one time too many
maintainPoolOneMore(S) ==
    LET bufferSize == S.p.buffer_size
        idleContainers == Cardinality(IdleIds(S))
    IN  IF idleContainers < bufferSize
        THEN {createLoop(S, 0, bufferSize - idleContainers + 1)}
        ELSE IF idleContainers > bufferSize
        THEN shutdownExcessContainers(S)
        ELSE {[S |-> S, k |-> Done]}

\* maintainPool up to its first awaited backend call
maintainPool(S) ==
    LET bufferSize == S.p.buffer_size
        idleContainers == Cardinality(IdleIds(S))
    IN  IF idleContainers < bufferSize
        THEN {createLoop(S, 0, bufferSize - idleContainers)}
        ELSE IF idleContainers > bufferSize
        THEN shutdownExcessContainers(S)
        ELSE {[S |-> S, k |-> Done]}

\* one iteration of the loop of shutdownExcessContainers after its kill call
\* resolved: DELETE the row, log, then the next kill call or the decrement
shutdownNext(S, k, now) ==
    LET id == k.list[k.idx]
        S1 == [S EXCEPT !.c = [x \in (DOMAIN @) \ {id} |-> @[x]]]
        S2 == logEvent(S1, "container_shutdown", id, now, "excess_idle_container")
    IN  IF k.idx < Len(k.list)
        THEN [S |-> S2, k |-> AwaitKill("kill", k.list, k.idx + 1, k.excess)]
        ELSE [S |-> decrementCurrentSize(S2, k.excess), k |-> Done]

\* a pass from an awaited backend call to its end with nothing else served in
\* between, the calls answering with any of outcomes: a start call that
\* rejects is caught by the loop, which goes on; a kill call that rejects
\* ends the pass; a response that is not ok is not looked at
RECURSIVE passFrom(_, _, _)
passFrom(r, now, outcomes) ==
    IF r.k.pc = "done" THEN {r.S}
    ELSE IF r.k.pc = "start"
    THEN UNION { IF outcome = "rejected"
                 THEN UNION { passFrom(next, now, outcomes) :
                                next \in {createLoop(r.S, r.k.i + 1, r.k.toCreate)} }
                 ELSE UNION { passFrom(next, now + 1, outcomes) :
                                next \in {createLoop(createContainerInsert(r.S, r.k.newId, now),
                                                     r.k.i + 1, r.k.toCreate)} }
                 : outcome \in outcomes }
    ELSE UNION { IF outcome = "rejected"
                 THEN {r.S}
                 ELSE UNION { passFrom(next, now + 1, outcomes) :
                                next \in {shutdownNext(r.S, r.k, now)} }
                 : outcome \in outcomes }

\* the tables a whole maintainPool call can leave
maintainPass(S, now, outcomes) ==
    UNION { passFrom(r, now, outcomes) : r \in maintainPool(S) }

-----------------------------------------------------------------------------
(* allocateContainer, deallocateContainer, resetContainers, updatePoolConfig *)

\* allocateContainer from "Update container with project" to the event
allocateBind(S, projectId, id, now) ==
    LET S1 == [S EXCEPT !.c = [x \in DOMAIN @ |->
                   IF x = id THEN [@[x] EXCEPT !.projectId = projectId,
                                               !.lastActivity = now]
                   ELSE @[x]]]
    IN  logEvent(S1, "container_allocated", id, now, projectId)

\* mutant of containerFound: the container.done check is missing
containerFoundAlways(S, containerId) == TRUE

\* deallocateContainer: SELECT * FROM containers WHERE id = ? has a row
containerFound(S, containerId) == containerId \in DOMAIN S.c

\* mutant of deallocateUpdate: the UPDATE writes last_activity only
deallocateUpdateKeepsOwner(S, containerId, now) ==
    LET S1 == [S EXCEPT !.c = [x \in DOMAIN @ |->
                   IF x = containerId THEN [@[x] EXCEPT !.lastActivity = now]
                   ELSE @[x]]]
    IN  logEvent(S1, "container_deallocated", containerId, now, "previousProjectId")

\* deallocateContainer from the UPDATE to the event
deallocateUpdate(S, containerId, now) ==
    LET S1 == [S EXCEPT !.c = [x \in DOMAIN @ |->
                   IF x = containerId THEN [@[x] EXCEPT !.projectId = Null,
                                                        !.lastActivity = now]
                   ELSE @[x]]]
    IN  logEvent(S1, "container_deallocated", containerId, now, "previousProjectId")

\* resetContainers after its kill calls
resetTables(S, now) ==
    LET S1 == [S EXCEPT !.c = EmptyTable]
        S2 == [S1 EXCEPT !.p.current_size = 0]
    IN  logEvent(S2, "pool_size_changed", SystemId, now, "reset")

\* the snapshot SELECT * FROM containers of resetContainers; the rows are
\* taken in ascending id order (the order of the kill calls decides nothing
\* the tables record)
allContainers(S) ==
    LET all == DOMAIN S.c
        n == Cardinality(all)
    IN  CHOOSE s \in [1..n -> all] : \A a, b \in 1..n : a < b => s[a] < s[b]

\* mutant of updateConfigTables: a key that is absent from the body is
\* written as 0
updateConfigTablesAllKeys(S, config, now) ==
    LET val(f) == IF f \in DOMAIN config THEN config[f] ELSE 0
        S1 == [S EXCEPT !.p.buffer_size = val("bufferSize"),
                        !.p.min_size = val("minSize"),
                        !.p.max_size = val("maxSize")]
    IN  logEvent(S1, "pool_size_changed", SystemId, now, "config_updated")

\* updatePoolConfig up to the event: only the keys of the body are written
updateConfigTables(S, config, now) ==
    LET has(f) == f \in DOMAIN config
        S1 == IF has("bufferSize") THEN [S EXCEPT !.p.buffer_size = config.bufferSize] ELSE S
        S2 == IF has("minSize") THEN [S1 EXCEPT !.p.min_size = config.minSize] ELSE S1
        S3 == IF has("maxSize") THEN [S2 EXCEPT !.p.max_size = config.maxSize] ELSE S2
    IN  logEvent(S3, "pool_size_changed", SystemId, now, "config_updated")

\* getContainerIdByProjectId: the results SELECT ... WHERE project_id = ?
\* LIMIT 1 followed by one() can give. one() throws unless the cursor has
\* exactly one row, so without a row of the project the call throws; with
\* several rows LIMIT 1 keeps any one of them
getContainerIdByProjectId(S, projectId) ==
    IF OwnedBy(S, projectId) = {} THEN {[status |-> "threw", id |-> NoId]}
    ELSE {[status |-> "ok", id |-> id] : id \in OwnedBy(S, projectId)}

-----------------------------------------------------------------------------
(* The proxy *)

\* hostnames of requests to the proxy, as their labels
Hostnames == {<<"p1", "example", "com">>, <<"p2", "example", "com">>}

\* paths of requests to the proxy, as their segments
Paths == {<<>>, <<"kill">>, <<"start">>, <<"app", "kill">>, <<"app", "start">>,
          <<"kill", "app">>, <<"app">>}

\* request.url.endsWith('/' + name)
endsWith(path, name) == path # <<>> /\ path[Len(path)] = name

\* no container instance was contacted
NoInstance == [kind |-> "none", of |-> NoId]

\* the instance the proxy forwards a request to for a container id
forwardTarget(containerId) == idFromName(containerId)

\* fetch of the proxy: the project id is the first label of the hostname;
\* the lookup can throw, and then so does fetch; no container id gives 404,
\* a private path 403, anything else is forwarded to the container instance
proxyFetch(S, hostname, path) ==
    LET projectId == hostname[1] IN
    { IF r.status = "threw"
      THEN [status |-> "threw", forwarded |-> NoInstance]
      ELSE IF r.id = NoId
      THEN [status |-> "404", forwarded |-> NoInstance]
      ELSE IF endsWith(path, "kill") \/ endsWith(path, "start")
      THEN [status |-> "403", forwarded |-> NoInstance]
      ELSE [status |-> "forwarded", forwarded |-> forwardTarget(r.id)]
      : r \in getContainerIdByProjectId(S, projectId) }

-----------------------------------------------------------------------------
(* The state after construction: initializeSchema has written the defaults
   and initializePool, which the constructor does not await, is waiting for
   its first start call *)

DefaultConfig == [min_size |-> 2, max_size |-> 10, current_size |-> 0, buffer_size |-> 2]

NoSockets == [o \in Observers |-> "none"]

Schema == [c |-> EmptyTable, p |-> DefaultConfig, e |-> <<>>, n |-> 1,
           w |-> NoSockets, m |-> NoMessages]

Init ==
    LET r == initializePool(Schema) IN
    /\ containers = r.S.c
    /\ poolConfig = r.S.p
    /\ events = r.S.e
    /\ nextId = r.S.n
    /\ clock = 0
    /\ procs = [p \in ProcIds |-> IF p = 1 THEN [r.k EXCEPT !.op = "init"] ELSE NoProc]
    /\ calls = 0
    /\ grants = {}
    /\ last = NoReturn
    /\ reply = NoReply
    /\ sockets = r.S.w
    /\ pushed = r.S.m
    /\ budget = MaxCalls

\* the tables once startup has created its two containers and
\* PUT /config {"maxSize": 3} has been served
ScenarioTables ==
    LET S1 == createContainerInsert(Schema, 1, 1)
        S2 == createContainerInsert(S1, 2, 2)
        S3 == updateConfigTables(S2, [maxSize |-> 3], 3)
    IN  [S3 EXCEPT !.n = 3]

\* that state, with no operation in flight and three requests to come
ScenarioInit ==
    /\ containers = ScenarioTables.c
    /\ poolConfig = ScenarioTables.p
    /\ events = ScenarioTables.e
    /\ nextId = ScenarioTables.n
    /\ clock = Len(ScenarioTables.e)
    /\ procs = [p \in ProcIds |-> NoProc]
    /\ calls = 0
    /\ grants = {}
    /\ last = NoReturn
    /\ reply = NoReply
    /\ sockets = NoSockets
    /\ pushed = NoMessages
    /\ budget = ScenarioCalls

-----------------------------------------------------------------------------
(* Steps *)

\* Date.now() of a block that writes: later than that of the blocks that
\* wrote before it
Nows == {clock + 1}

\* the tables after a block; the clock has moved when the block wrote an event
Commit(S, now) ==
    /\ containers' = S.c
    /\ poolConfig' = S.p
    /\ events' = S.e
    /\ nextId' = S.n
    /\ clock' = IF S.e # events THEN now ELSE clock
    /\ pushed' = S.m
    /\ UNCHANGED <<sockets, budget>>

\* slot p goes on as continuation k of operation op, or is free when k is done
Continue(p, op, key, k) ==
    procs' = [procs EXCEPT ![p] = IF k.pc = "done" THEN NoProc
                                  ELSE [k EXCEPT !.op = op, !.key = key]]

Released(ids) == {g \in grants : g[2] \in ids}

\* a request that writes to the tables or goes on to wait counts against
\* the budget; a request that is answered without a write does not
Accepts ==
    /\ calls < budget
    /\ calls' = calls + 1
    /\ reply' = NoReply

\* a request answered without a write and without a backend call
Answer(ret) ==
    /\ UNCHANGED <<containers, poolConfig, events, clock, nextId, procs, calls>>
    /\ UNCHANGED <<sockets, budget>>
    /\ pushed' = NoMessages
    /\ reply' = NoReply
    /\ last' = ret

\* mutant of AllocateFinish: allocateContainer awaits maintainPool, so it
\* returns when the pass has ended and fails when the pass throws
AllocateFinishAwaits(p, S, projectId, id, now) ==
    \E r \in maintainPool(allocateBind(S, projectId, id, now)) :
        /\ Commit(r.S, now)
        /\ Continue(p, "allocate", projectId, r.k)
        /\ grants' = grants \cup {<<projectId, id>>}
        /\ last' = IF r.k.pc = "done" THEN Return("allocate", projectId, id, "ok", "none")
                   ELSE NoReturn

\* allocateContainer binds id, spawns maintainPool without awaiting it and
\* returns the row
AllocateFinish(p, S, projectId, id, now) ==
    \E r \in maintainPool(allocateBind(S, projectId, id, now)) :
        /\ Commit(r.S, now)
        /\ Continue(p, "maintain", Null, r.k)
        /\ grants' = grants \cup {<<projectId, id>>}
        /\ last' = Return("allocate", projectId, id, "ok", "none")

\* mutant of AllocateNull: createContainer has counted the container
\* before it checks the limit
AllocateNullCounted(projectId) ==
    /\ UNCHANGED <<containers, events, clock, nextId, procs, calls, grants>>
    /\ UNCHANGED <<sockets, budget>>
    /\ pushed' = NoMessages
    /\ poolConfig' = [poolConfig EXCEPT !.current_size = @ + 1]
    /\ reply' = NoReply
    /\ last' = Return("allocate", projectId, NoId, "null", "pool_limit")

\* allocateContainer when createContainer throws at the pool limit: the
\* error is caught and null is returned
AllocateNull(projectId) ==
    /\ Answer(Return("allocate", projectId, NoId, "null", "pool_limit"))
    /\ UNCHANGED grants

\* mutant of Allocate: the SELECT of an idle container is skipped
AllocateCreates(projectId) ==
    LET S == Tables
        p == calls + 2
    IN  IF OwnedBy(S, projectId) # {}
        THEN \E id \in OwnedBy(S, projectId) :
                /\ Answer(Return("allocate", projectId, id, "ok", "none"))
                /\ grants' = grants \cup {<<projectId, id>>}
        ELSE IF poolLimitReached(S)
        THEN AllocateNull(projectId)
        ELSE /\ Accepts
             /\ Commit([S EXCEPT !.n = @ + 1], clock)
             /\ Continue(p, "allocate", projectId, AwaitStart(S.n, 0, 0))
             /\ UNCHANGED grants
             /\ last' = NoReturn

\* POST /allocate
Allocate(projectId) ==
    LET S == Tables
        p == calls + 2
    IN  IF OwnedBy(S, projectId) # {}
        THEN \E id \in OwnedBy(S, projectId) :
                /\ Answer(Return("allocate", projectId, id, "ok", "none"))
                /\ grants' = grants \cup {<<projectId, id>>}
        ELSE IF IdleIds(S) # {}
        THEN /\ Accepts
             /\ \E id \in IdleIds(S), now \in Nows :
                    AllocateFinish(p, S, projectId, id, now)
        ELSE IF poolLimitReached(S)
        THEN AllocateNull(projectId)
        ELSE /\ Accepts
             /\ Commit([S EXCEPT !.n = @ + 1], clock)
             /\ Continue(p, "allocate", projectId, AwaitStart(S.n, 0, 0))
             /\ UNCHANGED grants
             /\ last' = NoReturn

\* an operation that awaits maintainPool goes on, or returns when it is done
Awaited(p, op, r, now) ==
    /\ Commit(r.S, now)
    /\ Continue(p, op, procs[p].key, r.k)
    /\ last' = IF r.k.pc = "done" THEN Return(op, procs[p].key, NoId, "ok", "none")
               ELSE NoReturn

\* mutant of Deallocate: the request is held back while any operation
\* awaits a backend call
DeallocateHeld(containerId) ==
    LET S == Tables
        p == calls + 2
    IN  /\ \A q \in ProcIds : procs[q].pc = "done"
        /\ IF ~containerFound(S, containerId)
           THEN /\ Answer(Return("deallocate", Null, containerId, "threw", "not_found"))
                /\ UNCHANGED grants
           ELSE /\ Accepts
                /\ \E now \in Nows :
                   \E r \in maintainPool(deallocateUpdate(S, containerId, now)) :
                       /\ Awaited(p, "deallocate", r, now)
                       /\ grants' = grants \ Released({containerId})

\* /deallocate/<containerId>
Deallocate(containerId) ==
    LET S == Tables
        p == calls + 2
    IN  IF ~containerFound(S, containerId)
        THEN /\ Answer(Return("deallocate", Null, containerId, "threw", "not_found"))
             /\ UNCHANGED grants
        ELSE /\ Accepts
             /\ \E now \in Nows :
                \E r \in maintainPool(deallocateUpdate(S, containerId, now)) :
                    /\ Awaited(p, "deallocate", r, now)
                    /\ grants' = grants \ Released({containerId})

\* resetContainers after the last kill call: the tables, then initializePool
ResetFinish(p, S, now) ==
    /\ Awaited(p, "reset", initializePool(resetTables(S, now)), now)
    /\ grants' = {}

\* /reset
Reset ==
    /\ Accepts
    /\ \E now \in Nows :
        LET S == Tables
            p == calls + 2
            all == allContainers(S)
        IN  IF all = <<>>
            THEN ResetFinish(p, S, now)
            ELSE /\ Commit(S, clock)
                 /\ Continue(p, "reset", Null, AwaitKill("rkill", all, 1, 0))
                 /\ UNCHANGED grants
                 /\ last' = NoReturn

\* the body of the request gives buffer_size a new value
changesBufferSize(S, config) ==
    "bufferSize" \in DOMAIN config /\ config.bufferSize # S.p.buffer_size

\* PUT /config; the operation remembers whether it changed buffer_size
Configure(config) ==
    /\ Accepts
    /\ \E now \in Nows :
        LET key == IF changesBufferSize(Tables, config) THEN "bufferSize" ELSE Null IN
        \E r \in maintainPool(updateConfigTables(Tables, config, now)) :
            /\ Commit(r.S, now)
            /\ Continue(calls + 2, "config", key, r.k)
            /\ last' = IF r.k.pc = "done" THEN Return("config", key, NoId, "ok", "none")
                       ELSE NoReturn
            /\ UNCHANGED grants

\* an operation's awaited call throws: the operation ends
Throw(p) ==
    /\ Commit(Tables, clock)
    /\ procs' = [procs EXCEPT ![p] = NoProc]
    /\ UNCHANGED grants
    /\ last' = Return(procs[p].op, procs[p].key, NoId,
                      IF procs[p].op = "allocate" THEN "null" ELSE "threw", "backend")

\* mutant of StartReturns: a createContainer that throws ends the pass
StartReturnsAborts(p, outcome) ==
    /\ procs[p].pc = "start"
    /\ UNCHANGED calls
    /\ reply' = Reply("start", procs[p].newId, outcome)
    /\ \E now \in Nows :
        LET k == procs[p]
            S == Tables
        IN  IF k.op = "allocate"
            THEN IF outcome = "rejected"
                 THEN Throw(p)
                 ELSE AllocateFinish(p, createContainerInsert(S, k.newId, now),
                                     k.key, k.newId, now)
            ELSE /\ Awaited(p, k.op,
                            IF outcome = "rejected" THEN [S |-> S, k |-> Done]
                            ELSE createLoop(createContainerInsert(S, k.newId, now),
                                            k.i + 1, k.toCreate), now)
                 /\ UNCHANGED grants

\* the start call of a createContainer resolves or rejects
StartReturns(p, outcome) ==
    /\ procs[p].pc = "start"
    /\ UNCHANGED calls
    /\ reply' = Reply("start", procs[p].newId, outcome)
    /\ \E now \in Nows :
        LET k == procs[p]
            S == Tables
        IN  IF k.op = "allocate"
            THEN IF outcome = "rejected"
                 THEN Throw(p)
                 ELSE AllocateFinish(p, createContainerInsert(S, k.newId, now),
                                     k.key, k.newId, now)
            ELSE LET S1 == IF outcome = "rejected" THEN S
                           ELSE createContainerInsert(S, k.newId, now)
                 IN  /\ Awaited(p, k.op, createLoop(S1, k.i + 1, k.toCreate), now)
                     /\ UNCHANGED grants

\* the kill call of shutdownExcessContainers resolves or rejects
KillReturns(p, outcome) ==
    /\ procs[p].pc = "kill"
    /\ UNCHANGED calls
    /\ reply' = Reply("kill", procs[p].list[procs[p].idx], outcome)
    /\ \E now \in Nows :
        IF outcome = "rejected"
        THEN Throw(p)
        ELSE /\ Awaited(p, procs[p].op, shutdownNext(Tables, procs[p], now), now)
             /\ grants' = grants \* a deleted row is not a deallocation

\* a kill call of resetContainers resolves or rejects
ResetKillReturns(p, outcome) ==
    /\ procs[p].pc = "rkill"
    /\ UNCHANGED calls
    /\ reply' = Reply("kill", procs[p].list[procs[p].idx], outcome)
    /\ \E now \in Nows :
        LET k == procs[p] IN
        IF outcome = "rejected"
        THEN Throw(p)
        ELSE IF k.idx < Len(k.list)
        THEN /\ Commit(Tables, clock)
             /\ Continue(p, "reset", Null, AwaitKill("rkill", k.list, k.idx + 1, 0))
             /\ UNCHANGED grants
             /\ last' = NoReturn
        ELSE ResetFinish(p, Tables, now)

\* GET /ws: acceptWebSocket adds the observer's socket
Subscribe(o) ==
    /\ sockets[o] = "none"
    /\ sockets' = [sockets EXCEPT ![o] = "open"]
    /\ UNCHANGED <<containers, poolConfig, events, clock, nextId, procs, calls, grants,
                   budget>>
    /\ pushed' = NoMessages
    /\ reply' = NoReply
    /\ last' = Return("ws", Null, NoId, "ok", "none")

\* the peer of an accepted socket goes away: ws.send throws from now on
SocketBreaks(o) ==
    /\ sockets[o] = "open"
    /\ sockets' = [sockets EXCEPT ![o] = "broken"]
    /\ UNCHANGED <<containers, poolConfig, events, clock, nextId, procs, calls, grants,
                   budget>>
    /\ pushed' = NoMessages
    /\ reply' = NoReply
    /\ last' = NoReturn

Next ==
    \/ \E projectId \in ProjectIds : Allocate(projectId)
    \/ \E containerId \in DOMAIN containers \cup {nextId} : Deallocate(containerId)
    \/ Reset
    \/ \E config \in ConfigBodies : Configure(config)
    \/ \E p \in ProcIds, outcome \in StartOutcomes : StartReturns(p, outcome)
    \/ \E p \in ProcIds, outcome \in KillOutcomes : KillReturns(p, outcome)
    \/ \E p \in ProcIds, outcome \in KillOutcomes : ResetKillReturns(p, outcome)

Spec == Init /\ [][Next]_vars

\* allocate and deallocate requests only, with a backend that never fails
NextAllocOk ==
    \/ \E projectId \in ProjectIds : Allocate(projectId)
    \/ \E containerId \in DOMAIN containers \cup {nextId} : Deallocate(containerId)
    \/ \E p \in ProcIds : StartReturns(p, "ok")
    \/ \E p \in ProcIds : KillReturns(p, "ok")

SpecAllocOk == Init /\ [][NextAllocOk]_vars

\* three allocate and deallocate requests on a pool of two idle containers
\* with bufferSize 2 and maxSize 3, with a backend that never fails
SpecScenario == ScenarioInit /\ [][NextAllocOk]_vars

\* every request, with a backend that never fails
NextBackendOk ==
    \/ \E projectId \in ProjectIds : Allocate(projectId)
    \/ \E containerId \in DOMAIN containers \cup {nextId} : Deallocate(containerId)
    \/ Reset
    \/ \E config \in ConfigBodies : Configure(config)
    \/ \E p \in ProcIds : StartReturns(p, "ok")
    \/ \E p \in ProcIds : KillReturns(p, "ok")
    \/ \E p \in ProcIds : ResetKillReturns(p, "ok")

SpecBackendOk == Init /\ [][NextBackendOk]_vars

\* allocate and deallocate requests with observers that connect and go
\* away, with a backend that never fails
NextFanout ==
    \/ \E o \in Observers : Subscribe(o)
    \/ \E o \in Observers : SocketBreaks(o)
    \/ \E projectId \in ProjectIds : Allocate(projectId)
    \/ \E containerId \in DOMAIN containers \cup {nextId} : Deallocate(containerId)
    \/ \E p \in ProcIds : StartReturns(p, "ok")
    \/ \E p \in ProcIds : KillReturns(p, "ok")

SpecFanout == Init /\ [][NextFanout]_vars

-----------------------------------------------------------------------------
(* Properties *)

Rows == DOMAIN containers

IdleRows == {id \in Rows : containers[id].projectId = Null}

OwnedRows(projectId) == {id \in Rows : containers[id].projectId = projectId}

Quiescent == \A p \in ProcIds : procs[p].pc = "done"

\* C1: in every reachable state at most one container row has projectId
\* equal to any given project id
C1_OneContainerPerOwner ==
    \A projectId \in ProjectIds : Cardinality(OwnedBy(Tables, projectId)) <= 1

\* C2: an allocate for a project id that owns no container, delivered while
\* a container is idle, succeeds with one of the idle containers; and no
\* container that allocate returns is held by a caller with another project id
C2_NoDoubleBinding ==
    [][ /\ \A projectId \in ProjectIds :
              (Allocate(projectId) /\ OwnedRows(projectId) = {} /\ IdleRows # {})
                  => /\ last'.op = "allocate" /\ last'.key = projectId
                     /\ last'.status = "ok"
                     /\ last'.id \in IdleRows
        /\ (last'.op = "allocate" /\ last'.status = "ok")
              => /\ last'.id \in Rows'
                 /\ containers'[last'.id].projectId = last'.key
                 /\ \A g \in grants' : g[2] = last'.id => g[1] = last'.key
      ]_vars

\* two allocate calls with distinct project ids, one right after the other,
\* have each bound an idle container, and the two containers differ
C2_Witness ==
    LET n == Len(events) IN
    /\ n >= 2
    /\ events[n - 1].type = "container_allocated"
    /\ events[n].type = "container_allocated"
    /\ events[n - 1].details # events[n].details
    /\ events[n - 1].containerId # events[n].containerId
    /\ last.op = "allocate" /\ last.id = events[n].containerId
    /\ <<events[n - 1].details, events[n - 1].containerId>> \in grants

\* C3: an allocate for a project id that holds a container returned by an
\* earlier allocate (not deallocated, pool not reset since) returns that same
\* container, and exactly one container is bound to the project id
C3_IdempotentAllocation ==
    [][ \A g \in grants :
            Allocate(g[1])
                => /\ last' = Return("allocate", g[1], g[2], "ok", "none")
                   /\ Cardinality(OwnedRows(g[1])') = 1 ]_vars

\* C4: a step in which createContainer inserts a row leaves currentSize at
\* most maxSize, and a creation attempted at the limit fails with the
\* pool-limit error
C4_CapacityCap ==
    [][ /\ (Rows' \ Rows # {}) => poolConfig'.current_size <= poolConfig'.max_size
        /\ \A projectId \in ProjectIds :
              (Allocate(projectId) /\ OwnedRows(projectId) = {} /\ IdleRows = {}
                  /\ poolConfig.current_size >= poolConfig.max_size)
                  => last'.err = "pool_limit" ]_vars

\* C5: in every reachable state 0 <= currentSize <= maxSize
C5_SizeWithinBounds ==
    /\ 0 <= poolConfig.current_size
    /\ poolConfig.current_size <= poolConfig.max_size

\* C6: whenever no operation is in flight, currentSize equals the number of
\* rows of the containers table
C6_CounterInSync ==
    Quiescent => poolConfig.current_size = Cardinality(Rows)

\* C7: an allocate that finds no container of the project id and no idle
\* container while currentSize >= maxSize returns no container and leaves the
\* containers table, the pool configuration and the event log as they were
C7_FailedAllocationWritesNothing ==
    [][ \A projectId \in ProjectIds :
            (Allocate(projectId) /\ OwnedRows(projectId) = {} /\ IdleRows = {}
                /\ poolConfig.current_size >= poolConfig.max_size)
                => /\ last' = Return("allocate", projectId, NoId, "null", "pool_limit")
                   /\ UNCHANGED <<containers, poolConfig, events>> ]_vars

\* an allocate has failed at the pool limit in a pool that holds containers,
\* all of them owned
C7_Witness ==
    /\ last.op = "allocate" /\ last.status = "null" /\ last.err = "pool_limit"
    /\ Rows # {}
    /\ IdleRows = {}
    /\ poolConfig.current_size >= poolConfig.max_size

\* C8: when the start call of createContainer fails (it rejects, or it
\* resolves although the container did not start), no row is inserted for the
\* container, currentSize is not incremented and no container_created event
\* is appended
C8_FailedStartLeavesNothing ==
    [][ (reply'.call = "start" /\ reply'.outcome \in {"failed", "rejected"})
            => /\ reply'.id \notin Rows'
               /\ poolConfig'.current_size = poolConfig.current_size
               /\ \A n \in (Len(events) + 1)..Len(events') :
                      events'[n].type # "container_created" ]_vars

\* C9: after allocate and deallocate calls, once every maintenance pass has
\* run to completion, idleCount = min(bufferSize, currentSize), or creation
\* was capped (idleCount < bufferSize and currentSize = maxSize)
C9_BufferConvergence ==
    Quiescent =>
        \/ Cardinality(IdleRows) = Min(poolConfig.buffer_size, poolConfig.current_size)
        \/ /\ Cardinality(IdleRows) < poolConfig.buffer_size
           /\ poolConfig.current_size = poolConfig.max_size

\* C10: deallocate for an id that is not in the containers table fails with
\* the not-found error, leaves the containers table, the pool configuration
\* and the event log unchanged and starts no maintenance pass
C10_DeallocateUnknown ==
    [][ \A containerId \in 1..nextId :
            (Deallocate(containerId) /\ containerId \notin Rows)
                => /\ last' = Return("deallocate", Null, containerId, "threw", "not_found")
                   /\ UNCHANGED <<containers, poolConfig, events, procs>> ]_vars

\* a deallocate of an unknown id has failed in a pool that holds containers
C10_Witness ==
    /\ last.op = "deallocate" /\ last.err = "not_found"
    /\ last.id \notin Rows
    /\ Rows # {}

\* C11: deallocate of a container of the table sets that container's owner
\* to null, appends one event, container_deallocated for that id, changes no
\* other container's owner, and returns only when the maintenance pass it
\* awaits has run to its end
C11_DeallocateExisting ==
    [][ \A containerId \in Rows :
            Deallocate(containerId)
                => /\ containerId \in Rows'
                   /\ containers'[containerId].projectId = Null
                   /\ \A x \in Rows \ {containerId} :
                          x \in Rows' /\ containers'[x].projectId = containers[x].projectId
                   /\ Len(events') = Len(events) + 1
                   /\ events'[Len(events')].type = "container_deallocated"
                   /\ events'[Len(events')].containerId = containerId
                   /\ SubSeq(events', 1, Len(events)) = events
                   /\ (last'.op = "deallocate" /\ last'.status = "ok")
                          <=> procs'[calls + 2].pc = "done"
        /\ \A p \in ProcIds :
              (procs'[p] # procs[p] /\ procs'[p].op = "deallocate") => last' = NoReturn
      ]_vars

\* a container that allocate bound has just been deallocated: it is in the
\* table with no owner and the deallocate has returned
C11_Witness ==
    LET n == Len(events) IN
    /\ n >= 2
    /\ events[n - 1].type = "container_allocated"
    /\ events[n].type = "container_deallocated"
    /\ events[n].containerId = events[n - 1].containerId
    /\ events[n].containerId \in IdleRows
    /\ last.op = "deallocate" /\ last.status = "ok"

C13_ResetSurvivesKillFailure ==
    [][ \A p \in ProcIds :
            ResetKillReturns(p, "rejected")
                => \/ procs'[p].op = "reset" /\ procs'[p].pc = "rkill"
                   \/ /\ Rows' = {}
                      /\ poolConfig'.current_size = 0
                      /\ Len(events') = Len(events) + 1
                      /\ events'[Len(events')].type = "pool_size_changed"
                      /\ events'[Len(events')].details = "reset" ]_vars

\* the values pool_config would hold once the body is persisted
Requested(config, f, key) == IF f \in DOMAIN config THEN config[f] ELSE poolConfig[key]

\* a body the validation of configure has to refuse
InvalidBody(config) ==
    \/ \E f \in DOMAIN config : config[f] < 0
    \/ Requested(config, "minSize", "min_size") > Requested(config, "maxSize", "max_size")

\* C14: configure with a negative value, or with values that make
\* minSize > maxSize, fails with the invalid-configuration error and leaves
\* pool_config, the containers table and the event log unchanged
C14_InvalidConfigRejected ==
    [][ \A config \in ConfigBodies :
            (Configure(config) /\ InvalidBody(config))
                => /\ last'.op = "config" /\ last'.status = "threw"
                   /\ UNCHANGED <<containers, poolConfig, events>> ]_vars

\* C15: a configure changes exactly the configuration keys of its body: each
\* of min_size, max_size and buffer_size takes the requested value when the
\* body has it and keeps its previous value when it does not
C15_ConfigureWritesGivenKeys ==
    [][ \A config \in ConfigBodies :
            Configure(config)
                => /\ poolConfig'.min_size = Requested(config, "minSize", "min_size")
                   /\ poolConfig'.max_size = Requested(config, "maxSize", "max_size")
                   /\ poolConfig'.buffer_size = Requested(config, "bufferSize", "buffer_size")
      ]_vars

\* a configure with maxSize and bufferSize has just been persisted: both
\* have the requested values and min_size still has its default
C15_Witness ==
    /\ events # <<>>
    /\ events[Len(events)].details = "config_updated"
    /\ poolConfig.max_size = 3
    /\ poolConfig.buffer_size = 1
    /\ poolConfig.min_size = DefaultConfig.min_size

\* C16: when a configure that changed bufferSize returns, the number of idle
\* containers equals the new bufferSize, or is below it with currentSize at
\* maxSize
C16_ConfigureConverges ==
    [][ (last'.op = "config" /\ last'.key = "bufferSize" /\ last'.status = "ok")
            => \/ Cardinality(IdleRows') = poolConfig'.buffer_size
               \/ /\ Cardinality(IdleRows') < poolConfig'.buffer_size
                  /\ poolConfig'.current_size >= poolConfig'.max_size ]_vars

\* the number of events of a type that a step appends
Appended(type) ==
    Cardinality({n \in (Len(events) + 1)..Len(events') : events'[n].type = type})

\* the step is the deletion of reset
ResetStep ==
    \E n \in (Len(events) + 1)..Len(events') : events'[n].details = "reset"

\* the containers a step binds to an owner
BoundRows ==
    {x \in Rows' : /\ containers'[x].projectId # Null
                   /\ x \in Rows => containers[x].projectId # containers'[x].projectId}

\* C17: every allocation, deallocation, container creation, container
\* shutdown and configuration change appends exactly one event of its type
\* (container_allocated, container_deallocated, container_created,
\* container_shutdown, pool_size_changed), and nothing else is appended
C17_OneEventPerMutation ==
    [][ /\ events = SubSeq(events', 1, Len(events))
        /\ Appended("container_allocated") = Cardinality(BoundRows)
        /\ Appended("container_created") = Cardinality(Rows' \ Rows)
        /\ Appended("container_shutdown") =
              IF ResetStep THEN 0 ELSE Cardinality(Rows \ Rows')
        /\ Appended("container_deallocated") =
              IF \E containerId \in Rows : Deallocate(containerId) THEN 1 ELSE 0
        /\ Appended("pool_size_changed") =
              IF ResetStep \/ \E config \in ConfigBodies : Configure(config) THEN 1 ELSE 0
      ]_vars

\* C18: in every reachable state the timestamps of the event log are
\* non-decreasing in append order
C18_TimestampsNonDecreasing ==
    \A a, b \in 1..Len(events) : a < b => events[a].timestamp <= events[b].timestamp

\* a createContainer whose start call was awaited across the events of
\* other operations has appended its event after theirs
C18_Witness ==
    LET n == Len(events) IN
    /\ n >= 3
    /\ events[n].type = "container_created"
    /\ events[n].containerId < events[n - 1].containerId
    /\ events[n - 1].type \in {"container_created", "container_allocated"}
    /\ events[n - 2].type # "container_created"

\* what lookupOwner answers for a container id, and for no container
Found(id) == [status |-> "ok", id |-> id]

NotFound == [status |-> "null", id |-> NoId]

\* C19: while a container that allocate returned for a project id is in the
\* table and has not been deallocated (and the pool not reset), lookupOwner
\* of the project id returns that container's id; after deallocate of a
\* container lookupOwner returns that id for no project id
C19_LookupReflectsAllocation ==
    [][ /\ \A g \in grants' :
              g[2] \in Rows' => getContainerIdByProjectId(Tables', g[1]) = {Found(g[2])}
        /\ \A containerId \in Rows :
              Deallocate(containerId)
                  => \A projectId \in ProjectIds :
                         Found(containerId) \notin getContainerIdByProjectId(Tables', projectId)
      ]_vars

\* C20: lookupOwner of a project id that owns no container returns none
\* (null) as a normal result
C20_LookupNoneIsNull ==
    \A projectId \in ProjectIds :
        OwnedRows(projectId) = {}
            => getContainerIdByProjectId(Tables, projectId) = {NotFound}

\* a status snapshot whose containers list is as long as its currentSize
Consistent(status) ==
    Cardinality(DOMAIN status.containers) = status.poolConfig.currentSize

\* C21: every status snapshot, the one status() returns in a reachable state
\* and each one pushed to an observer with an event, has a containers list
\* whose length equals its poolConfig.currentSize
C21_SnapshotNotTorn ==
    /\ Consistent(getStatus(Tables))
    /\ \A o \in Observers : \A n \in 1..Len(pushed[o]) : Consistent(pushed[o][n].status)

\* a maintenance pass that an allocate started is waiting for a backend call
MaintenanceInFlight == \E p \in ProcIds : procs[p].op = "maintain"

\* the step is an allocate, deallocate, reset or configure request
RequestStep ==
    \/ \E projectId \in ProjectIds : Allocate(projectId)
    \/ \E containerId \in Rows \cup {nextId} : Deallocate(containerId)
    \/ Reset
    \/ \E config \in ConfigBodies : Configure(config)

\* C22: while the maintenance pass that an allocate triggered has not ended,
\* no allocate, deallocate, reset or configure is served: the pass completes
\* before the next mutating call is accepted
C22_MaintenanceNotOverlapped ==
    [][ MaintenanceInFlight => ~RequestStep ]_vars

\* a backend call of a maintenance pass that an allocate started fails
MaintenanceFails ==
    \E p \in ProcIds :
        /\ procs[p].op = "maintain"
        /\ \/ StartReturns(p, "rejected")
           \/ StartReturns(p, "failed")
           \/ KillReturns(p, "rejected")

\* C23: an allocate that binds a container returns it in the step that
\* binds it, before any backend call of its maintenance pass; and a failed
\* creation or kill in that pass returns nothing to an allocate caller and
\* leaves every container that allocate returned bound as it was
C23_MaintenanceFailureKeepsAllocation ==
    [][ /\ \A projectId \in ProjectIds :
              (Allocate(projectId) /\ OwnedRows(projectId)' # {})
                  => /\ last'.op = "allocate" /\ last'.status = "ok"
                     /\ last'.id \in OwnedRows(projectId)'
        /\ MaintenanceFails
              => /\ last'.op # "allocate"
                 /\ grants' = grants
                 /\ \A g \in grants :
                        g[2] \in Rows
                            => /\ g[2] \in Rows'
                               /\ containers'[g[2]].projectId = containers[g[2]].projectId
      ]_vars

\* the maintenance pass of an allocate has ended with a rejected backend
\* call while the container the allocate returned is bound to its project
C23_Witness ==
    /\ reply.outcome = "rejected"
    /\ last.op = "maintain"
    /\ \E g \in grants : g[2] \in Rows /\ containers[g[2]].projectId = g[1]

\* the initializePool that the constructor started has not ended
StartupInFlight == procs[1].op = "init"

\* C24: no allocate, deallocate, reset or configure request is served before
\* the startup initialization has ended, and when it ends without any other
\* operation having run, bufferSize containers are idle (or the pool is at
\* maxSize)
C24_ColdStartBeforeTraffic ==
    [][ /\ RequestStep => ~StartupInFlight
        /\ (StartupInFlight /\ ~StartupInFlight' /\ calls = 0)
              => \/ Cardinality(IdleRows') = poolConfig'.buffer_size
                 \/ poolConfig'.current_size >= poolConfig'.max_size ]_vars

\* the types of the events in the log, in append order
EventTypes == [n \in 1..Len(events) |-> events[n].type]

\* the log when the scenario starts; after allocate(p1) and the creation of
\* its maintenance pass; after allocate(p2); after the deallocate of the
\* container of p1
ScenarioStart == <<"container_created", "container_created", "pool_size_changed">>

AfterFirst ==
    /\ EventTypes = ScenarioStart \o <<"container_allocated", "container_created">>
    /\ events[4].details = "p1"

AfterSecond ==
    /\ EventTypes = ScenarioStart \o <<"container_allocated", "container_created",
                                       "container_allocated">>
    /\ events[4].details = "p1" /\ events[6].details = "p2"

AfterThird ==
    /\ EventTypes = ScenarioStart \o <<"container_allocated", "container_created",
                                       "container_allocated", "container_deallocated">>
    /\ events[4].details = "p1" /\ events[6].details = "p2"
    /\ events[7].containerId = events[4].containerId

\* the deallocate of the scenario returns success
ThirdSucceeds ==
    [][ (AfterSecond /\ AfterThird')
            => last' = Return("deallocate", Null, NoId, "ok", "none") ]_vars

\* the numbers of the scenario as the claim gives them
ScenarioAsStated ==
    /\ AfterFirst => Cardinality(IdleRows) = 2 /\ poolConfig.current_size = 3
    /\ AfterSecond => Cardinality(IdleRows) = 0 /\ Cardinality(Rows) = 3 /\ nextId = 4
    /\ AfterThird => Cardinality(IdleRows) = 1

\* the numbers of the scenario as the code produces them
ScenarioAmended ==
    /\ AfterFirst => /\ Cardinality(IdleRows) = 2
                     /\ poolConfig.current_size = 3
                     /\ Quiescent
    /\ AfterSecond => /\ Cardinality(IdleRows) = 1
                      /\ Cardinality(Rows) = 3 /\ poolConfig.current_size = 3
                      /\ nextId = 4
                      /\ Quiescent
    /\ AfterThird => /\ Cardinality(IdleRows) = 2
                     /\ Cardinality(Rows) = 3 /\ poolConfig.current_size = 3
                     /\ nextId = 4
                     /\ Quiescent

\* C25 as stated: after allocate(p1) and its maintenance idle = 2 and
\* currentSize = 3; after allocate(p2) no container is created and idle = 0;
\* after the deallocate of the container of p1 idle = 1 and nothing failed
C25_ScenarioAsStated == []ScenarioAsStated /\ ThirdSucceeds

\* C25 amended: after allocate(p1) and its maintenance idle = 2 and
\* currentSize = 3; after allocate(p2) no container is created, currentSize
\* stays 3 and idle = 1; after the deallocate of the container of p1 idle = 2,
\* no container is created or shut down and the deallocate succeeds
C25_Scenario == []ScenarioAmended /\ ThirdSucceeds

\* the scenario has run to its end
C25_Witness == AfterThird /\ OwnedRows("p2") # {} /\ OwnedRows("p1") = {}

\* what a maintenance pass can change
PoolState(S) == [containers |-> S.c, currentSize |-> S.p.current_size, events |-> S.e]

AppendedEvents == SubSeq(events', Len(events) + 1, Len(events'))

\* the events of the messages the step sent to observer o
PushedEvents(o) == [n \in 1..Len(pushed'[o]) |-> pushed'[o][n].event]

\* C27: in every step an observer whose socket is open is sent every event
\* the step appended, in order, whatever happens to the sends to the other
\* observers; an observer whose send throws is sent nothing; and with or
\* without a throwing send an allocate that finds an idle container returns
\* it bound and logged, and a deallocate of a container releases it, logs it
\* and returns success once its maintenance pass is over
C27_SendFailureIsolated ==
    [][ /\ \A o \in Observers :
              /\ (sockets[o] = "open" /\ sockets'[o] = "open")
                    => PushedEvents(o) = AppendedEvents
              /\ sockets[o] # "open" => pushed'[o] = <<>>
        /\ \A projectId \in ProjectIds :
              (Allocate(projectId) /\ OwnedRows(projectId) = {} /\ IdleRows # {})
                  => /\ last'.op = "allocate" /\ last'.status = "ok"
                     /\ last'.id \in IdleRows
                     /\ containers'[last'.id].projectId = projectId
                     /\ Len(AppendedEvents) >= 1
                     /\ AppendedEvents[1].type = "container_allocated"
                     /\ AppendedEvents[1].containerId = last'.id
        /\ \A containerId \in Rows :
              Deallocate(containerId)
                  => /\ containers'[containerId].projectId = Null
                     /\ AppendedEvents[1].type = "container_deallocated"
                     /\ last' \in {NoReturn, Return("deallocate", Null, NoId, "ok", "none")}
        /\ \A p \in ProcIds :
              (procs[p].op = "deallocate" /\ procs'[p].pc = "done")
                  => last' = Return("deallocate", Null, NoId, "ok", "none") ]_vars

\* an allocate succeeded while the send to observer 1 threw, and observer 2
\* was sent its event
C27_Witness ==
    /\ sockets[1] = "broken" /\ sockets[2] = "open"
    /\ last.op = "allocate" /\ last.status = "ok"
    /\ Len(pushed[2]) >= 1
    /\ pushed[2][1].event.type = "container_allocated"
    /\ pushed[1] = <<>>

\* C28: once startup initialization is over, a maintenance shutdown never
\* takes the number of containers below min_size
C28_MinSizeMaintained ==
    [][ \A p \in ProcIds :
          (KillReturns(p, "ok") /\ ~StartupInFlight
                                /\ Cardinality(Rows) >= poolConfig.min_size)
              => Cardinality(Rows') >= poolConfig'.min_size ]_vars

\* the last event of the log
LastEvent == events[Len(events)]

\* C29: an allocate for a project that already owns a container returns
\* that container and changes nothing: no event, no row touched, created or
\* removed, current_size as it was, no maintenance pass started
C29_ReallocateChangesNothing ==
    [][ \A projectId \in ProjectIds :
          (Allocate(projectId) /\ OwnedRows(projectId) # {})
              => /\ UNCHANGED <<containers, poolConfig, events, nextId, procs, grants>>
                 /\ last'.op = "allocate" /\ last'.status = "ok"
                 /\ last'.id \in OwnedRows(projectId) ]_vars

\* an allocate returned the container its project already owned: the log
\* does not end with an allocation of that container to it at that time
C29_Witness ==
    /\ last.op = "allocate" /\ last.status = "ok"
    /\ last.id \in OwnedRows(last.key)
    /\ events # <<>>
    /\ LastEvent.type # "container_allocated"
    /\ containers[last.id].lastActivity < clock

\* the step is a rejected start call of a maintainPool pass
CreationFails(p) ==
    StartReturns(p, "rejected") /\ procs[p].op \in {"maintain", "deallocate", "config"}

\* C30 as stated: when a creation of a maintenance pass fails, the pass
\* attempts no further createContainer
C30_CreationFailureAbortsPass ==
    [][ \A p \in ProcIds : CreationFails(p) => procs'[p].pc # "start" ]_vars

\* C30 amended: when a creation of a maintenance pass fails, the failure is
\* caught and the pass goes on with its next creation, if one remains and the
\* pool is below its limit; the containers created so far, current_size and
\* the event log stay as they are
C30_CreationFailureContinues ==
    [][ \A p \in ProcIds : CreationFails(p) =>
          /\ UNCHANGED <<containers, poolConfig, events>>
          /\ IF procs[p].i + 1 < procs[p].toCreate /\ ~poolLimitReached(Tables)
             THEN /\ procs'[p].pc = "start"
                  /\ procs'[p].i = procs[p].i + 1
                  /\ procs'[p].newId = nextId
                  /\ nextId' = nextId + 1
             ELSE procs'[p].pc = "done" ]_vars

\* the first creation of the maintenance pass of the only request failed and
\* the pass awaits its second, while startup still awaits its first
C30_Witness ==
    /\ calls = 1
    /\ procs[1].op = "init" /\ procs[1].pc = "start" /\ procs[1].i = 0
    /\ procs[2].op = "maintain" /\ procs[2].pc = "start" /\ procs[2].i = 1
    /\ reply = Reply("start", procs[2].newId - 1, "rejected")

\* the step is a rejected kill call of a maintenance shutdown
ShutdownFails(p) == KillReturns(p, "rejected")

\* C31: when a start call or a kill call of a maintenance pass fails, the
\* pass goes on with its next container: a remaining creation is attempted
\* and a remaining excess idle container is shut down
C31_PassContinuesAfterFailure ==
    [][ \A p \in ProcIds :
          /\ (CreationFails(p) /\ procs[p].i + 1 < procs[p].toCreate
                               /\ ~poolLimitReached(Tables))
                => procs'[p].pc = "start" /\ procs'[p].i = procs[p].i + 1
          /\ (ShutdownFails(p) /\ procs[p].idx < Len(procs[p].list))
                => procs'[p].pc = "kill" /\ procs'[p].idx = procs[p].idx + 1 ]_vars

\* the container whose kill call process p awaits
Victim(p) == procs[p].list[procs[p].idx]

\* the ids in a list
Listed(list) == {list[n] : n \in 1..Len(list)}

\* C32: a maintenance pass that finds more idle containers than buffer_size
\* selects exactly the excess, oldest first; each of its kills removes one
\* row and appends one container_shutdown event with reason
\* excess_idle_container; and when the pass ends current_size has gone down
\* by the number of rows the pass removed
C32_ShutdownExactlyExcess ==
    [][ \A p \in ProcIds :
          /\ (procs[p].pc # "kill" /\ procs'[p].pc = "kill")
                => /\ Len(procs'[p].list)
                         = Cardinality(IdleRows') - poolConfig'.buffer_size
                   /\ Listed(procs'[p].list) \subseteq IdleRows'
                   /\ \A x \in Listed(procs'[p].list) :
                         \A y \in IdleRows' \ Listed(procs'[p].list) :
                            containers'[x].createdAt <= containers'[y].createdAt
          /\ KillReturns(p, "ok")
                => /\ Victim(p) \in Rows
                   /\ Rows' = Rows \ {Victim(p)}
                   /\ Len(AppendedEvents) = 1
                   /\ AppendedEvents[1].type = "container_shutdown"
                   /\ AppendedEvents[1].containerId = Victim(p)
                   /\ AppendedEvents[1].details = "excess_idle_container"
                   /\ poolConfig'.current_size = poolConfig.current_size
                         - (IF procs'[p].pc = "done" THEN Len(procs[p].list) ELSE 0)
          /\ ShutdownFails(p)
                => poolConfig'.current_size = poolConfig.current_size
                                                - (procs[p].idx - 1) ]_vars

\* C33: the row a maintenance shutdown deletes has no owner at the moment
\* it is deleted
C33_ShutdownSparesOwned ==
    [][ \A p \in ProcIds :
          (KillReturns(p, "ok") /\ Victim(p) \in Rows /\ Victim(p) \notin Rows')
              => containers[Victim(p)].projectId = Null ]_vars

\* the timestamps of the reset events in the log after the step
ResetTimes == {events'[n].timestamp : n \in {m \in 1..Len(events') : events'[m].details = "reset"}}

\* C34: when reset returns, every container was created after the reset
\* deleted the rows, none is owned, there are min(buffer_size, max_size) of
\* them and current_size is that number
C34_ResetReinitializes ==
    [][ (last'.op = "reset" /\ last'.status = "ok")
            => /\ \E time \in ResetTimes :
                     \A id \in Rows' : containers'[id].createdAt > time
               /\ IdleRows' = Rows'
               /\ Cardinality(Rows') = Min(poolConfig'.buffer_size, poolConfig'.max_size)
               /\ poolConfig'.current_size = Cardinality(Rows') ]_vars

\* C35: a kill call goes to the instance createContainer started for the
\* row it removes, and the proxy forwards to the instance started for the
\* container of the owner
C35_NoInstanceLeaked ==
    [][ /\ reply'.call = "kill" => reply'.instance = newUniqueId(reply'.id)
        /\ \A id \in Rows' : forwardTarget(id) = newUniqueId(id) ]_vars

\* C36: the log before a step is a prefix of the log after it: no step of
\* allocate, deallocate, createContainer, maintenance or configure (nor of
\* reset, which deletes no event either) changes, removes or reorders an
\* event already appended
C36_LogAppendOnly ==
    [][ /\ Len(events') >= Len(events)
        /\ \A n \in 1..Len(events) : events'[n] = events[n] ]_vars

\* allocate, deallocate, creation and configure have each appended to a log
\* that already held events
C36_Witness ==
    /\ Len(events) >= 4
    /\ \E n \in 2..Len(events) : events[n].type = "container_allocated"
    /\ \E n \in 2..Len(events) : events[n].type = "pool_size_changed"
                                  /\ events[n].details # "reset"
    /\ \A n \in 1..Len(events) : events[n].details # "reset"

\* C37: while a createContainer awaits its start call and a request can
\* still be made, a deallocate of any existing container is accepted and
\* releases it, and the waiting createContainer stays as it is
C37_SlowStartDoesNotStall ==
    \A p \in ProcIds, id \in Rows :
        (procs[p].pc = "start" /\ calls < budget)
            => ENABLED (/\ Deallocate(id)
                        /\ containers'[id].projectId = Null
                        /\ procs'[p] = procs[p])

\* a deallocate has returned while a createContainer of another operation
\* still awaits its start call
C37_Witness ==
    /\ last = Return("deallocate", Null, NoId, "ok", "none")
    /\ events[Len(events)].type = "container_deallocated"
    /\ \E p \in ProcIds : procs[p].pc = "start" /\ procs[p].op # "deallocate"

\* an allocate begins a createContainer of its own in this step
AllocateStartsCreation ==
    \E p \in ProcIds : /\ procs'[p].op = "allocate" /\ procs'[p].pc = "start"
                        /\ procs[p].op # "allocate"

\* C38: an allocate for a project that owns no container binds an idle
\* container whenever one exists and adds no row itself; it begins a
\* createContainer of its own only when no container is idle at the call
C38_AllocatePrefersIdle ==
    [][ /\ \A projectId \in ProjectIds :
              (Allocate(projectId) /\ OwnedRows(projectId) = {} /\ IdleRows # {})
                  => /\ last'.op = "allocate" /\ last'.status = "ok"
                     /\ last'.id \in IdleRows
                     /\ containers'[last'.id].projectId = projectId
                     /\ Rows' = Rows
                     /\ ~AllocateStartsCreation
        /\ AllocateStartsCreation => IdleRows = {} ]_vars

\* an allocate has bound a container that was idle in the pool, not one it
\* created, and another idle container remains
C38_Witness ==
    /\ Len(events) >= 2
    /\ last.op = "allocate" /\ last.status = "ok"
    /\ LastEvent.type = "container_allocated" /\ LastEvent.containerId = last.id
    /\ events[Len(events) - 1].containerId # last.id
    /\ IdleRows # {}

\* C39: the proxy forwards no request whose path ends in kill or start, it
\* forwards only to the container the lookup gave for the project id of the
\* hostname, and when it does not forward it answers 403 or 404
C39_ProxyForwardsOnlyOwned ==
    \A hostname \in Hostnames, path \in Paths :
        \A r \in proxyFetch(Tables, hostname, path) :
            /\ (endsWith(path, "kill") \/ endsWith(path, "start"))
                  => r.forwarded = NoInstance
            /\ r.forwarded # NoInstance
                  => \E id \in OwnedRows(hostname[1]) : r.forwarded = forwardTarget(id)
            /\ r.forwarded = NoInstance => r.status \in {"403", "404"}

====
